---------------------------- MODULE Spec2Model ----------------------------
(***************************************************************************)
(* Model of the browser-test service (src/api.py): the request handler     *)
(* TestExecutor.execute_test_with_streaming with its step callback, the    *)
(* task-string builder and the keyword classifier.                         *)
(*                                                                         *)
(* Python str values are TLA+ strings; Len, SubSeq, Head, Tail and \o act  *)
(* on them character by character.  An optional value (None or a str) is a *)
(* sequence of length 0 or 1.                                              *)
(***************************************************************************)
EXTENDS Naturals, Sequences, FiniteSets, TLC

VARIABLES
    pc,                 \* position of the request in the handler (api.py 315-401)
    request,            \* the TestRequest (292-296)
    keyPresent,         \* os.getenv("GOOGLE_API_KEY") is set (327)
    websocket,          \* a live channel is attached to the call (315)
    execution_log,      \* execution_log list (319)
    screenshots,        \* screenshots list (320)
    step_count,         \* step_count of _execute_with_monitoring (405)
    status,             \* local status (365, 374)
    actual_outcome,     \* local actual_outcome (357, 375)
    comparison_result,  \* local comparison_result (360, 376)
    browser_bound,      \* 'browser' in locals() (335, 379)
    task_string,        \* task handed to Agent(...) (342)
    exc,                \* the exception caught at line 371, if any
    raised_at,          \* position where that exception was raised
    agent_output,       \* what agent.run() returned, if it returned (441)
    close_calls,        \* number of browser.close() calls made (368, 380)
    run_calls,          \* number of agent.run() calls made (441)
    sent,               \* messages delivered over the websocket (418, 432)
    result,             \* the TestResult returned, if any (387-401)
    http,               \* HTTP status of the /run-test response, 0 before it
    expected,           \* _simple_comparison argument: expected text
    actual,             \* _simple_comparison argument: actual text
    verdict,            \* _simple_comparison return value, if computed
    pushed,             \* messages handed to websocket.send_text (418, 432)
    last_cap,           \* what the screenshot probe of the latest step met
    hooks_fired,        \* step callbacks the agent has fired (441)
    health,             \* HTTP status of the latest /health answer, 0 before it
    form,               \* dashboard inputs (streamlit_app.py 143-174)
    session,            \* st.session_state (streamlit_app.py 115-122)
    posted,             \* payload posted to /run-test, if any (250-266)
    ui_error,           \* st.error message of the button handler, if any
    banner,             \* status banner rendered, if any (283-291)
    dpc,                \* position of the dashboard's button handler
    calls               \* locals of concurrently handled requests

vars == <<pc, request, keyPresent, websocket, execution_log, screenshots,
          step_count, status, actual_outcome, comparison_result, browser_bound,
          task_string, exc, raised_at, agent_output, close_calls, run_calls,
          sent, result, http, expected, actual, verdict, pushed, last_cap,
          hooks_fired, health, form, session, posted, ui_error, banner, dpc,
          calls>>

reqVars == <<pc, request, keyPresent, websocket, execution_log, screenshots,
             step_count, status, actual_outcome, comparison_result,
             browser_bound, task_string, exc, raised_at, agent_output,
             close_calls, run_calls, sent, result, http>>

cmpVars == <<expected, actual, verdict>>

hookVars == <<pushed, last_cap, hooks_fired>>

dashVars == <<form, session, posted, ui_error, banner, dpc>>

\* what a step of the request handler, other than the step callback, leaves alone
others == <<cmpVars, hookVars, health, dashVars, calls>>

\* what the step callback leaves alone beside the handler's own variables
hookOthers == <<cmpVars, health, dashVars, calls>>

None == <<>>
Some(x) == <<x>>

(***************************************************************************)
(* Bounds of the model.                                                    *)
(***************************************************************************)
MaxSteps == 2       \* step callbacks fired by one agent run
MaxWords == 3       \* words in a classifier input text

(***************************************************************************)
(* Python string primitives.                                               *)
(***************************************************************************)
UpperChars == "ABCDEFGHIJKLMNOPQRSTUVWXYZ"
LowerChars == "abcdefghijklmnopqrstuvwxyz"
DigitChars == "0123456789"
Whitespace == {" ", "\t", "\n", "\r"}

CharAt(s, i) == SubSeq(s, i, i)

\* str.lower() of one character
LowerChar(c) ==
    IF \E i \in 1..Len(UpperChars) : CharAt(UpperChars, i) = c
    THEN CharAt(LowerChars, CHOOSE i \in 1..Len(UpperChars) : CharAt(UpperChars, i) = c)
    ELSE c

RECURSIVE Lower(_)
\* str.lower()
Lower(s) == IF s = "" THEN "" ELSE LowerChar(Head(s)) \o Lower(Tail(s))

\* the 'in' operator on two str: k is a substring of s
Contains(s, k) ==
    \E i \in 1..(Len(s) + 1) :
        /\ i + Len(k) - 1 <= Len(s)
        /\ SubSeq(s, i, i + Len(k) - 1) = k

StartsWith(s, p) == Len(p) <= Len(s) /\ SubSeq(s, 1, Len(p)) = p

\* bool(s.strip()): s has a character that is not whitespace
StripNonEmpty(s) == \E i \in 1..Len(s) : CharAt(s, i) \notin Whitespace

RECURSIVE Str(_)
\* str(n) / f"{n}" of a natural number
Str(n) == IF n < 10 THEN CharAt(DigitChars, n + 1)
          ELSE Str(n \div 10) \o CharAt(DigitChars, (n % 10) + 1)

RECURSIVE Join(_, _)
\* sep.join(parts)
Join(parts, sep) ==
    IF Len(parts) = 0 THEN ""
    ELSE IF Len(parts) = 1 THEN parts[1]
    ELSE parts[1] \o sep \o Join(Tail(parts), sep)

\* sum(1 for keyword in keywords if keyword in text)
CountIn(keywords, text) ==
    Cardinality({i \in 1..Len(keywords) : Contains(text, keywords[i])})

(***************************************************************************)
(* TestExecutor._simple_comparison                                         *)
(***************************************************************************)
success_keywords == <<"success", "completed", "achieved", "passed", "login", "dashboard">>
failure_keywords == <<"failed", "error", "exception", "timeout", "not found">>

\* str.split(): the maximal runs of non-whitespace characters of s from i on,
\* the run being read starting at 'start'
RECURSIVE SplitFrom(_, _, _)
SplitFrom(s, start, i) ==
    IF i > Len(s)
    THEN IF start <= Len(s) THEN <<SubSeq(s, start, Len(s))>> ELSE <<>>
    ELSE IF CharAt(s, i) \in Whitespace
    THEN (IF start < i THEN <<SubSeq(s, start, i - 1)>> ELSE <<>>)
             \o SplitFrom(s, i + 1, i + 1)
    ELSE SplitFrom(s, start, i + 1)

SplitWords(s) == SplitFrom(s, 1, 1)

\* the words of the case-folded expected text longer than two characters
ExpectedKeywords(exp) == SelectSeq(SplitWords(Lower(exp)), LAMBDA w : Len(w) > 2)

\* how many of them occur in the case-folded actual text
KeywordMatches(exp, act) == CountIn(ExpectedKeywords(exp), Lower(act))

\* Variant: the success test is made before the failure test.
SimpleComparisonSuccessFirst(exp, act) ==
    LET actual_lower  == Lower(act)
        success_count == CountIn(success_keywords, actual_lower)
        failure_count == CountIn(failure_keywords, actual_lower)
    IN  IF success_count > 0
        THEN "SUCCESS: Test appears to have completed successfully. Expected: " \o exp
                 \o ". Actual: " \o act
        ELSE IF failure_count > 0
        THEN "FAILED: Test execution encountered issues. Expected: " \o exp
                 \o ". Actual: " \o act
        ELSE "PARTIAL: Test completed but outcome unclear. Expected: " \o exp
                 \o ". Actual: " \o act

\* Variant: a keyword match of 20% of the expected words also passes, with
\* no minimum of one match.
SimpleComparisonKeywordShare(exp, act) ==
    LET actual_lower  == Lower(act)
        success_count == CountIn(success_keywords, actual_lower)
        failure_count == CountIn(failure_keywords, actual_lower)
    IN  IF failure_count > 0
        THEN "FAILED: Test execution encountered issues. Expected: " \o exp
                 \o ". Actual: " \o act
        ELSE IF success_count > 0
                \/ 5 * KeywordMatches(exp, act) >= Len(ExpectedKeywords(exp))
        THEN "SUCCESS: Test appears to have completed successfully. Expected: " \o exp
                 \o ". Actual: " \o act
        ELSE "PARTIAL: Test completed but outcome unclear. Expected: " \o exp
                 \o ". Actual: " \o act

SimpleComparison(exp, act) ==
    LET actual_lower  == Lower(act)
        success_count == CountIn(success_keywords, actual_lower)
        failure_count == CountIn(failure_keywords, actual_lower)
    IN  IF failure_count > 0
        THEN "FAILED: Test execution encountered issues. Expected: " \o exp
                 \o ". Actual: " \o act
        ELSE IF success_count > 0
        THEN "SUCCESS: Test appears to have completed successfully. Expected: " \o exp
                 \o ". Actual: " \o act
        ELSE "PARTIAL: Test completed but outcome unclear. Expected: " \o exp
                 \o ". Actual: " \o act

(***************************************************************************)
(* Classifier inputs: texts of up to MaxWords words.                       *)
(***************************************************************************)
Vocabulary == {"successfully", "handled", "error", "done", "Login", "not",
               "found", "welcome", "TIMEOUT"}

RECURSIVE TextsOf(_)
TextsOf(n) ==
    IF n = 0 THEN {""}
    ELSE LET shorter == TextsOf(n - 1)
         IN  shorter \cup Vocabulary
                 \cup {t \o " " \o w : t \in shorter \ {""}, w \in Vocabulary}

ActualTexts == TextsOf(MaxWords)
ExpectedTexts == {"", "User should log in and see dashboard", "welcome", "not done"}

InitCompare ==
    /\ expected \in ExpectedTexts
    /\ actual \in ActualTexts
    /\ verdict = None

Compare ==
    /\ verdict = None
    /\ verdict' = Some(SimpleComparison(expected, actual))
    /\ UNCHANGED <<expected, actual>>


(***************************************************************************)
(* TestRequest / TestStep                                                  *)
(***************************************************************************)
NumStepFields == 10     \* step1 .. step10

MakeRequest(url, title, steps, outcome) ==
    [URL |-> url, Title |-> title, Steps |-> steps, Expected_Outcome |-> outcome]

(***************************************************************************)
(* TestExecutor._build_task_string_with_screenshots                        *)
(***************************************************************************)
RECURSIVE Enumerate(_, _)
\* [f"{i}. {step}" for i, step in enumerate(steps_list, i)]
Enumerate(steps_list, i) ==
    IF Len(steps_list) = 0 THEN <<>>
    ELSE <<Str(i) \o ". " \o Head(steps_list)>> \o Enumerate(Tail(steps_list), i + 1)

\* Variant: only missing steps are dropped, blank ones are kept.
StepsListKeepBlank(steps) ==
    LET kept == SelectSeq(steps, LAMBDA o : o # None)
    IN  [j \in 1..Len(kept) |-> kept[j][1]]

\* [step for step in steps_dict.values() if step is not None and step.strip()]
StepsList(steps) ==
    LET kept == SelectSeq(steps, LAMBDA o : o # None /\ StripNonEmpty(o[1]))
    IN  [j \in 1..Len(kept) |-> kept[j][1]]

BuildTaskString(req) ==
    LET steps_list == StepsList(req.Steps)
        task_parts ==
            << "Test Title: " \o req.Title,
               "Expected Outcome: " \o req.Expected_Outcome,
               "",
               "Navigate to: " \o req.URL,
               "",
               "Execute the following steps one by one, taking time between each step:" >>
            \o Enumerate(steps_list, 1)
            \o << "",
                  "After completing all steps, validate the expected outcome.",
                  "Expected outcome: " \o req.Expected_Outcome >>
    IN  Join(task_parts, "\n")


(***************************************************************************)
(* Requests, environment outcomes and literals of the handler.             *)
(***************************************************************************)
NoSteps == [i \in 1..NumStepFields |-> None]

LoginSteps ==
    [i \in 1..NumStepFields |->
        IF i = 1 THEN Some("Enter username as 'testuser'")
        ELSE IF i = 2 THEN Some("   ")
        ELSE IF i = 3 THEN Some("Click on the login button")
        ELSE IF i = 4 THEN Some("")
        ELSE None]

Requests ==
    { MakeRequest("https://example.com/login", "User Login Test", LoginSteps,
                  "User must be able to log into the dashboard successfully"),
      MakeRequest("https://example.com", "Smoke", NoSteps, "") }

\* what agent.run() can return as its free-text result
AgentOutputs == {"Login failed: element not found", "Task finished"}

StartIso == "2025-01-01T00:00:00"
TestId == "test_1735689600"

MissingKeyMessage == "GOOGLE_API_KEY not found in environment variables"
CompletedOutcome == "Test execution completed successfully. All steps were performed."
ErrorComparison == "Test could not be completed due to execution error"

\* what the screenshot probe of one step can meet
Captures ==
    { [kind |-> "bytes",      data |-> "img1"],
      [kind |-> "bytes",      data |-> ""],
      [kind |-> "str",        data |-> "aW1nMg=="],
      [kind |-> "other",      data |-> ""],
      [kind |-> "no_session", data |-> ""],
      [kind |-> "no_page",    data |-> ""],
      [kind |-> "raise",      data |-> ""] }

\* base64.b64encode(data).decode('utf-8') on the byte strings of Captures
B64Encode(data) ==
    CASE data = ""     -> ""
      [] data = "img1" -> "aW1nMQ=="

(***************************************************************************)
(* TestExecutor._take_screenshot_from_agent: a str, or None                *)
(***************************************************************************)
TakeScreenshot(cap) ==
    IF cap.kind = "raise" THEN None                 \* except Exception: return None
    ELSE IF cap.kind = "no_session" THEN None       \* no browser_session attribute
    ELSE IF cap.kind = "no_page" THEN None          \* current_page is falsy
    ELSE IF cap.kind = "bytes" THEN Some(B64Encode(cap.data))
    ELSE IF cap.kind = "str" THEN Some(cap.data)
    ELSE None

\* json.dumps({...}) of the two message shapes
ScreenshotMessage(shot, n) ==
    [type |-> "screenshot", screenshot |-> Some(shot), step |-> n,
     message |-> "Step " \o Str(n) \o " completed"]

StatusMessage(n) ==
    [type |-> "status", screenshot |-> None, step |-> n,
     message |-> "Completed step " \o Str(n)]

(***************************************************************************)
(* run_test -> TestExecutor.execute_test_with_streaming                    *)
(***************************************************************************)
InitRequest ==
    /\ pc = "start"
    /\ request \in Requests
    /\ keyPresent \in BOOLEAN
    /\ websocket \in BOOLEAN
    /\ execution_log = <<>>
    /\ screenshots = <<>>
    /\ step_count = 0
    /\ status = None
    /\ actual_outcome = None
    /\ comparison_result = None
    /\ browser_bound = FALSE
    /\ task_string = None
    /\ exc = None
    /\ raised_at = None
    /\ agent_output = None
    /\ close_calls = 0
    /\ run_calls = 0
    /\ sent = <<>>
    /\ result = None
    /\ http = 0

\* raise inside the try block at position 'where'
Raise(where, msg) ==
    /\ exc' = Some(msg)
    /\ raised_at' = Some(where)
    /\ pc' = "except"

\* lines 317-324
Start ==
    /\ pc = "start"
    /\ execution_log' = Append(execution_log, "Test started at " \o StartIso)
    /\ screenshots' = <<>>
    /\ pc' = "validate"
    /\ UNCHANGED <<request, keyPresent, websocket, step_count, status,
                   actual_outcome, comparison_result, browser_bound, task_string,
                   exc, raised_at, agent_output, close_calls, run_calls, sent,
                   result, http>>

\* Variant: the key is not looked at when a request arrives.
ValidateKeySkipped ==
    /\ pc = "validate"
    /\ pc' = "llm"
    /\ UNCHANGED <<exc, raised_at>>
    /\ UNCHANGED <<request, keyPresent, websocket, execution_log, screenshots,
                   step_count, status, actual_outcome, comparison_result,
                   browser_bound, task_string, agent_output, close_calls,
                   run_calls, sent, result, http>>

\* lines 327-328
ValidateKey ==
    /\ pc = "validate"
    /\ IF ~keyPresent
       THEN Raise("validate", MissingKeyMessage)
       ELSE pc' = "llm" /\ UNCHANGED <<exc, raised_at>>
    /\ UNCHANGED <<request, keyPresent, websocket, execution_log, screenshots,
                   step_count, status, actual_outcome, comparison_result,
                   browser_bound, task_string, agent_output, close_calls,
                   run_calls, sent, result, http>>

\* lines 331-332
InitLLM(ok) ==
    /\ pc = "llm"
    /\ IF ok
       THEN /\ execution_log' = Append(execution_log, "Gemini LLM initialized successfully")
            /\ pc' = "browser"
            /\ UNCHANGED <<exc, raised_at>>
       ELSE /\ Raise("llm", "ChatGoogle: cannot initialise model")
            /\ UNCHANGED execution_log
    /\ UNCHANGED <<request, keyPresent, websocket, screenshots, step_count, status,
                   actual_outcome, comparison_result, browser_bound, task_string,
                   agent_output, close_calls, run_calls, sent, result, http>>

\* lines 335-339
InitBrowser(ok) ==
    /\ pc = "browser"
    /\ IF ok
       THEN /\ browser_bound' = TRUE
            /\ execution_log' = Append(execution_log, "Browser initialized successfully")
            /\ pc' = "agent"
            /\ UNCHANGED <<exc, raised_at>>
       ELSE /\ Raise("browser", "Browser: cannot launch")
            /\ UNCHANGED <<browser_bound, execution_log>>
    /\ UNCHANGED <<request, keyPresent, websocket, screenshots, step_count, status,
                   actual_outcome, comparison_result, task_string, agent_output,
                   close_calls, run_calls, sent, result, http>>

\* lines 342-349
CreateAgent(ok) ==
    /\ pc = "agent"
    /\ task_string' = Some(BuildTaskString(request))
    /\ IF ok
       THEN pc' = "monitor" /\ UNCHANGED <<exc, raised_at>>
       ELSE Raise("agent", "Agent: invalid configuration")
    /\ UNCHANGED <<request, keyPresent, websocket, execution_log, screenshots,
                   step_count, status, actual_outcome, comparison_result,
                   browser_bound, agent_output, close_calls, run_calls, sent,
                   result, http>>


(***************************************************************************)
(* TestExecutor._execute_with_monitoring and its step_hook                 *)
(***************************************************************************)
\* lines 405, 441: step_count = 0; await agent.run(on_step_end=step_hook)
StartRun ==
    /\ pc = "monitor"
    /\ step_count' = 0
    /\ run_calls' = run_calls + 1
    /\ pc' = "running"
    /\ UNCHANGED <<request, keyPresent, websocket, execution_log, screenshots,
                   status, actual_outcome, comparison_result, browser_bound,
                   task_string, exc, raised_at, agent_output, close_calls, sent,
                   result, http>>

StepLogEntry(n) == "Step " \o Str(n) \o " completed with screenshot"

\* Variant: the two send_text calls are not wrapped in try/except, so a
\* closed socket raises out of step_hook and out of agent.run.
StepHookSendRaises(cap, sendShotOk, sendStatusOk) ==
    /\ pc = "running"
    /\ step_count < MaxSteps
    /\ LET n == step_count + 1
           screenshot == TakeScreenshot(cap)
           truthy == screenshot # None /\ screenshot[1] # ""
           shotFails == truthy /\ websocket /\ ~sendShotOk
           statusFails == websocket /\ ~sendStatusOk
           sent1 == IF truthy /\ websocket /\ sendShotOk
                    THEN Append(sent, ScreenshotMessage(screenshot[1], n))
                    ELSE sent
           pushed1 == IF truthy /\ websocket
                      THEN Append(pushed, ScreenshotMessage(screenshot[1], n))
                      ELSE pushed
       IN  /\ step_count' = n
           /\ screenshots' = IF truthy THEN Append(screenshots, screenshot[1])
                             ELSE screenshots
           /\ execution_log' = IF shotFails THEN execution_log
                               ELSE Append(execution_log, StepLogEntry(n))
           /\ sent' = IF websocket /\ ~shotFails /\ sendStatusOk
                      THEN Append(sent1, StatusMessage(n))
                      ELSE sent1
           /\ pushed' = IF websocket /\ ~shotFails
                        THEN Append(pushed1, StatusMessage(n))
                        ELSE pushed1
           /\ last_cap' = Some(cap)
           /\ hooks_fired' = hooks_fired + 1
           /\ IF shotFails \/ statusFails
              THEN Raise("running", "WebSocket is closed")
              ELSE UNCHANGED <<pc, exc, raised_at>>
    /\ UNCHANGED <<request, keyPresent, websocket, status, actual_outcome,
                   comparison_result, browser_bound, task_string,
                   agent_output, close_calls, run_calls, result, http>>

\* Variant: the status send sits inside the 'if screenshot:' block, so a
\* step without a screenshot pushes nothing.
StepHookStatusInsideIf(cap, sendShotOk, sendStatusOk) ==
    /\ pc = "running"
    /\ step_count < MaxSteps
    /\ LET n == step_count + 1
           screenshot == TakeScreenshot(cap)
           truthy == screenshot # None /\ screenshot[1] # ""
           sent1 == IF truthy /\ websocket /\ sendShotOk
                    THEN Append(sent, ScreenshotMessage(screenshot[1], n))
                    ELSE sent
       IN  /\ step_count' = n
           /\ screenshots' = IF truthy THEN Append(screenshots, screenshot[1])
                             ELSE screenshots
           /\ execution_log' = Append(execution_log, StepLogEntry(n))
           /\ sent' = IF truthy /\ websocket /\ sendStatusOk
                      THEN Append(sent1, StatusMessage(n))
                      ELSE sent1
           /\ pushed' = IF truthy /\ websocket
                        THEN pushed \o <<ScreenshotMessage(screenshot[1], n),
                                         StatusMessage(n)>>
                        ELSE pushed
           /\ last_cap' = Some(cap)
           /\ hooks_fired' = hooks_fired + 1
    /\ UNCHANGED <<pc, request, keyPresent, websocket, status, actual_outcome,
                   comparison_result, browser_bound, task_string, exc, raised_at,
                   agent_output, close_calls, run_calls, result, http>>

\* Variant: _take_screenshot_from_agent has no try/except, so an exception
\* of the capture leaves step_hook right after the increment of line 409.
StepHookCaptureRaises(cap, sendShotOk, sendStatusOk) ==
    /\ pc = "running"
    /\ step_count < MaxSteps
    /\ LET n == step_count + 1
           screenshot == TakeScreenshot(cap)
           truthy == screenshot # None /\ screenshot[1] # ""
           escapes == cap.kind = "raise"
           sent1 == IF truthy /\ websocket /\ sendShotOk
                    THEN Append(sent, ScreenshotMessage(screenshot[1], n))
                    ELSE sent
       IN  /\ step_count' = n
           /\ screenshots' = IF truthy THEN Append(screenshots, screenshot[1])
                             ELSE screenshots
           /\ execution_log' = IF escapes THEN execution_log
                               ELSE Append(execution_log, StepLogEntry(n))
           /\ sent' = IF websocket /\ sendStatusOk /\ ~escapes
                      THEN Append(sent1, StatusMessage(n))
                      ELSE sent1
           /\ pushed' = IF websocket /\ ~escapes
                        THEN (IF truthy
                              THEN Append(pushed, ScreenshotMessage(screenshot[1], n))
                              ELSE pushed) \o <<StatusMessage(n)>>
                        ELSE pushed
           /\ last_cap' = Some(cap)
           /\ hooks_fired' = hooks_fired + 1
           /\ IF escapes
              THEN Raise("running", "Screenshot failed: target closed")
              ELSE UNCHANGED <<pc, exc, raised_at>>
    /\ UNCHANGED <<request, keyPresent, websocket, status, actual_outcome,
                   comparison_result, browser_bound, task_string,
                   agent_output, close_calls, run_calls, result, http>>

\* Variant: the log append of line 427 sits inside the 'if screenshot:'
\* block, so a step without a screenshot leaves no entry.
StepHookLogInsideIf(cap, sendShotOk, sendStatusOk) ==
    /\ pc = "running"
    /\ step_count < MaxSteps
    /\ LET n == step_count + 1
           screenshot == TakeScreenshot(cap)
           truthy == screenshot # None /\ screenshot[1] # ""
           sent1 == IF truthy /\ websocket /\ sendShotOk
                    THEN Append(sent, ScreenshotMessage(screenshot[1], n))
                    ELSE sent
       IN  /\ step_count' = n
           /\ screenshots' = IF truthy THEN Append(screenshots, screenshot[1])
                             ELSE screenshots
           /\ execution_log' = IF truthy
                               THEN Append(execution_log, StepLogEntry(n))
                               ELSE execution_log
           /\ sent' = IF websocket /\ sendStatusOk
                      THEN Append(sent1, StatusMessage(n))
                      ELSE sent1
           /\ pushed' = IF websocket
                        THEN (IF truthy
                              THEN Append(pushed, ScreenshotMessage(screenshot[1], n))
                              ELSE pushed) \o <<StatusMessage(n)>>
                        ELSE pushed
           /\ last_cap' = Some(cap)
           /\ hooks_fired' = hooks_fired + 1
    /\ UNCHANGED <<pc, request, keyPresent, websocket, status, actual_outcome,
                   comparison_result, browser_bound, task_string, exc, raised_at,
                   agent_output, close_calls, run_calls, result, http>>

\* lines 407-438: one call of step_hook; cap is what the screenshot probe
\* meets, sendShotOk / sendStatusOk whether each send_text call succeeds
StepHook(cap, sendShotOk, sendStatusOk) ==
    /\ pc = "running"
    /\ step_count < MaxSteps
    /\ LET n == step_count + 1
           screenshot == TakeScreenshot(cap)
           truthy == screenshot # None /\ screenshot[1] # ""
           sent1 == IF truthy /\ websocket /\ sendShotOk
                    THEN Append(sent, ScreenshotMessage(screenshot[1], n))
                    ELSE sent
       IN  /\ step_count' = n
           /\ screenshots' = IF truthy THEN Append(screenshots, screenshot[1])
                             ELSE screenshots
           /\ execution_log' = Append(execution_log, StepLogEntry(n))
           /\ sent' = IF websocket /\ sendStatusOk
                      THEN Append(sent1, StatusMessage(n))
                      ELSE sent1
           /\ pushed' = IF websocket
                        THEN (IF truthy
                              THEN Append(pushed, ScreenshotMessage(screenshot[1], n))
                              ELSE pushed) \o <<StatusMessage(n)>>
                        ELSE pushed
           /\ last_cap' = Some(cap)
           /\ hooks_fired' = hooks_fired + 1
    /\ UNCHANGED <<pc, request, keyPresent, websocket, status, actual_outcome,
                   comparison_result, browser_bound, task_string, exc, raised_at,
                   agent_output, close_calls, run_calls, result, http>>

\* line 441: agent.run returns; its value is not bound to anything
RunReturns(out) ==
    /\ pc = "running"
    /\ agent_output' = Some(out)
    /\ pc' = "classify"
    /\ UNCHANGED <<request, keyPresent, websocket, execution_log, screenshots,
                   step_count, status, actual_outcome, comparison_result,
                   browser_bound, task_string, exc, raised_at, close_calls,
                   run_calls, sent, result, http>>

\* line 441: agent.run raises
RunRaises ==
    /\ pc = "running"
    /\ Raise("running", "Agent run failed: browser disconnected")
    /\ UNCHANGED <<request, keyPresent, websocket, execution_log, screenshots,
                   step_count, status, actual_outcome, comparison_result,
                   browser_bound, task_string, agent_output, close_calls,
                   run_calls, sent, result, http>>

(***************************************************************************)
(* execute_test_with_streaming, after the run                              *)
(***************************************************************************)
\* line 357: the outcome text taken after a run that returned 'out'
ActualOutcomeOf(out) == CompletedOutcome

\* Variant: the handler reports a completed run in the dashboard's words.
SuccessStatusPassed == "passed"

\* line 365
SuccessStatus == "success"

\* lines 354-365
Classify ==
    /\ pc = "classify"
    /\ execution_log' = Append(execution_log, "Agent execution completed successfully")
    /\ actual_outcome' = Some(ActualOutcomeOf(agent_output[1]))
    /\ comparison_result' =
           Some(SimpleComparison(request.Expected_Outcome,
                                 ActualOutcomeOf(agent_output[1])))
    /\ status' = Some(SuccessStatus)
    /\ pc' = "close"
    /\ UNCHANGED <<request, keyPresent, websocket, screenshots, step_count,
                   browser_bound, task_string, exc, raised_at, agent_output,
                   close_calls, run_calls, sent, result, http>>

\* lines 368-369: await browser.close() inside the try block
CloseBrowser(ok) ==
    /\ pc = "close"
    /\ close_calls' = close_calls + 1
    /\ IF ok
       THEN /\ execution_log' = Append(execution_log, "Browser closed successfully")
            /\ pc' = "build"
            /\ UNCHANGED <<exc, raised_at>>
       ELSE /\ Raise("close", "Browser close failed: target closed")
            /\ UNCHANGED execution_log
    /\ UNCHANGED <<request, keyPresent, websocket, screenshots, step_count, status,
                   actual_outcome, comparison_result, browser_bound, task_string,
                   agent_output, run_calls, sent, result, http>>

\* line 373
ErrorEntry(e) == "ERROR: " \o e

\* Variant: the except block reports the error to the logger only and
\* leaves execution_log as it is.
HandlerSilent ==
    /\ pc = "except"
    /\ status' = Some("error")
    /\ actual_outcome' = Some("Test failed with error: " \o exc[1])
    /\ comparison_result' = Some(ErrorComparison)
    /\ pc' = IF browser_bound THEN "except_close" ELSE "build"
    /\ UNCHANGED <<request, keyPresent, websocket, execution_log, screenshots,
                   step_count, browser_bound, task_string, exc, raised_at,
                   agent_output, close_calls, run_calls, sent, result, http>>

\* lines 371-379: the except block up to its own close attempt
Handler ==
    /\ pc = "except"
    /\ execution_log' = Append(execution_log, ErrorEntry(exc[1]))
    /\ status' = Some("error")
    /\ actual_outcome' = Some("Test failed with error: " \o exc[1])
    /\ comparison_result' = Some(ErrorComparison)
    /\ pc' = IF browser_bound THEN "except_close" ELSE "build"
    /\ UNCHANGED <<request, keyPresent, websocket, screenshots, step_count,
                   browser_bound, task_string, exc, raised_at, agent_output,
                   close_calls, run_calls, sent, result, http>>

\* Variant: the close in the except block is not guarded, so its failure
\* leaves execute_test_with_streaming and run_test answers 500.
HandlerCloseUnguarded(ok) ==
    /\ pc = "except_close"
    /\ close_calls' = close_calls + 1
    /\ IF ok THEN pc' = "build" /\ UNCHANGED http
             ELSE pc' = "returned" /\ http' = 500
    /\ UNCHANGED <<request, keyPresent, websocket, execution_log, screenshots,
                   step_count, status, actual_outcome, comparison_result,
                   browser_bound, task_string, exc, raised_at, agent_output,
                   run_calls, sent, result>>

\* lines 378-382: try: await browser.close()  except: pass
HandlerClose(ok) ==
    /\ pc = "except_close"
    /\ close_calls' = close_calls + 1
    /\ pc' = "build"
    /\ UNCHANGED <<request, keyPresent, websocket, execution_log, screenshots,
                   step_count, status, actual_outcome, comparison_result,
                   browser_bound, task_string, exc, raised_at, agent_output,
                   run_calls, sent, result, http>>

\* lines 387-399
MakeResult ==
    [test_id |-> TestId,
     title |-> request.Title,
     url |-> request.URL,
     status |-> status[1],
     expected_outcome |-> request.Expected_Outcome,
     actual_outcome |-> actual_outcome[1],
     comparison_result |-> comparison_result[1],
     execution_log |-> execution_log,
     screenshots |-> screenshots]

\* lines 384-401 and run_test lines 521-522: the result is returned and sent
BuildResult ==
    /\ pc = "build"
    /\ result' = Some(MakeResult)
    /\ http' = 200
    /\ pc' = "returned"
    /\ UNCHANGED <<request, keyPresent, websocket, execution_log, screenshots,
                   step_count, status, actual_outcome, comparison_result,
                   browser_bound, task_string, exc, raised_at, agent_output,
                   close_calls, run_calls, sent>>

(***************************************************************************)
(* health_check (api.py 527-529)                                           *)
(***************************************************************************)
\* GET /health: answers 200 whatever the state of the service
HealthCheck ==
    /\ health = 0
    /\ health' = 200
    /\ UNCHANGED <<reqVars, cmpVars, hookVars, dashVars, calls>>

(***************************************************************************)
(* The dashboard (src/streamlit_app.py)                                    *)
(***************************************************************************)
\* str.upper() of one character
UpperChar(c) ==
    IF \E i \in 1..Len(LowerChars) : CharAt(LowerChars, i) = c
    THEN CharAt(UpperChars, CHOOSE i \in 1..Len(LowerChars) : CharAt(LowerChars, i) = c)
    ELSE c

RECURSIVE Upper(_)
\* str.upper()
Upper(s) == IF s = "" THEN "" ELSE UpperChar(Head(s)) \o Upper(Tail(s))

\* lines 165-174: the steps dict, as the TestStep the service parses from it
\* (a key that is not posted is a field left at None)
StepsDict(values) ==
    [i \in 1..NumStepFields |->
        IF StripNonEmpty(values[i]) THEN Some(values[i]) ELSE None]

\* lines 283-291: the status indicator
Banner(st) ==
    IF st = "passed" THEN "TEST PASSED"
    ELSE IF st = "failed" THEN "TEST FAILED"
    ELSE IF st = "partial" THEN "TEST PARTIAL"
    ELSE "TEST STATUS UNKNOWN"

\* lines 244-247
ResetSession ==
    [screenshots |-> <<>>, current_step |-> 0,
     test_status |-> "Executing...", execution_log |-> <<>>]

\* lines 270-275: session state after a result arrived
SessionAfter(ses, res) ==
    [screenshots  |-> IF res.screenshots # <<>> THEN res.screenshots
                      ELSE ses.screenshots,
     current_step |-> IF res.screenshots # <<>> THEN Len(res.screenshots)
                      ELSE ses.current_step,
     test_status  |-> Upper(res.status),
     execution_log |-> res.execution_log]

\* Variant: the button handler does not look at the steps.
ClickNoStepCheck ==
    /\ dpc = "idle"
    /\ IF form.url = "" \/ form.title = "" \/ form.outcome = ""
       THEN /\ ui_error' = Some("Please fill in all required fields (URL, Title, Expected Outcome)")
            /\ dpc' = "error"
            /\ UNCHANGED <<session, posted>>
       ELSE /\ session' = ResetSession
            /\ posted' = Some(MakeRequest(form.url, form.title,
                                          StepsDict(form.steps), form.outcome))
            /\ dpc' = "posted"
            /\ UNCHANGED ui_error
    /\ UNCHANGED <<form, banner>>

\* lines 236-266: the Execute button, up to the POST of call_test_api
Click ==
    /\ dpc = "idle"
    /\ IF form.url = "" \/ form.title = "" \/ form.outcome = ""
       THEN /\ ui_error' = Some("Please fill in all required fields (URL, Title, Expected Outcome)")
            /\ dpc' = "error"
            /\ UNCHANGED <<session, posted>>
       ELSE IF \A i \in 1..NumStepFields : StepsDict(form.steps)[i] = None
       THEN /\ ui_error' = Some("Please add at least one test step")
            /\ dpc' = "error"
            /\ UNCHANGED <<session, posted>>
       ELSE /\ session' = ResetSession
            /\ posted' = Some(MakeRequest(form.url, form.title,
                                          StepsDict(form.steps), form.outcome))
            /\ dpc' = "posted"
            /\ UNCHANGED ui_error
    /\ UNCHANGED <<form, banner>>

\* lines 92-104 and 268-291: the answer of call_test_api is rendered;
\* res is the TestResult, or None after a RequestException
Respond(res) ==
    /\ dpc = "posted"
    /\ IF res = None
       THEN /\ ui_error' = Some("API call failed")
            /\ UNCHANGED <<session, banner>>
       ELSE /\ session' = SessionAfter(session, res[1])
            /\ banner' = Some(Banner(res[1].status))
            /\ UNCHANGED ui_error
    /\ dpc' = "done"
    /\ UNCHANGED <<form, posted>>

\* lines 268-291: the dashboard renders the TestResult the handler returned
ShowResult ==
    /\ pc = "returned"
    /\ http = 200
    /\ banner = None
    /\ session' = SessionAfter(session, result[1])
    /\ banner' = Some(Banner(result[1].status))
    /\ UNCHANGED <<form, posted, ui_error, dpc>>
    /\ UNCHANGED <<reqVars, cmpVars, hookVars, health, calls>>

(***************************************************************************)
(* Specification of one request.                                           *)
(***************************************************************************)
IdleCompare == expected = "" /\ actual = "" /\ verdict = None

\* no step callback has run
IdleHook == pushed = <<>> /\ last_cap = None /\ hooks_fired = 0

\* the dashboard before any input
IdleDash ==
    /\ form = [url |-> "", title |-> "", outcome |-> "",
               steps |-> [i \in 1..NumStepFields |-> ""]]
    /\ session = [screenshots |-> <<>>, current_step |-> 0,
                  test_status |-> "Ready", execution_log |-> <<>>]
    /\ posted = None
    /\ ui_error = None
    /\ banner = None
    /\ dpc = "idle"

\* no concurrently handled requests
IdleCalls == calls = <<>>

Init == InitRequest /\ IdleCompare /\ IdleHook /\ health = 0 /\ IdleDash /\ IdleCalls

Next ==
    \/ Start /\ UNCHANGED others
    \/ ValidateKey /\ UNCHANGED others
    \/ \E ok \in BOOLEAN : InitLLM(ok) /\ UNCHANGED others
    \/ \E ok \in BOOLEAN : InitBrowser(ok) /\ UNCHANGED others
    \/ \E ok \in BOOLEAN : CreateAgent(ok) /\ UNCHANGED others
    \/ StartRun /\ UNCHANGED others
    \/ \E cap \in Captures, a, b \in BOOLEAN : StepHook(cap, a, b) /\ UNCHANGED hookOthers
    \/ \E out \in AgentOutputs : RunReturns(out) /\ UNCHANGED others
    \/ RunRaises /\ UNCHANGED others
    \/ Classify /\ UNCHANGED others
    \/ \E ok \in BOOLEAN : CloseBrowser(ok) /\ UNCHANGED others
    \/ Handler /\ UNCHANGED others
    \/ \E ok \in BOOLEAN : HandlerClose(ok) /\ UNCHANGED others
    \/ BuildResult /\ UNCHANGED others
    \/ HealthCheck
    \/ ShowResult

Spec == Init /\ [][Next]_vars


(***************************************************************************)
(* Specification of the classifier alone: any expected and actual text.    *)
(***************************************************************************)
IdleRequest ==
    /\ pc = "idle"
    /\ request = MakeRequest("", "", NoSteps, "")
    /\ keyPresent = FALSE
    /\ websocket = FALSE
    /\ execution_log = <<>>
    /\ screenshots = <<>>
    /\ step_count = 0
    /\ status = None
    /\ actual_outcome = None
    /\ comparison_result = None
    /\ browser_bound = FALSE
    /\ task_string = None
    /\ exc = None
    /\ raised_at = None
    /\ agent_output = None
    /\ close_calls = 0
    /\ run_calls = 0
    /\ sent = <<>>
    /\ result = None
    /\ http = 0

InitCompareSpec ==
    InitCompare /\ IdleRequest /\ IdleHook /\ health = 0 /\ IdleDash /\ IdleCalls

NextCompare == Compare /\ UNCHANGED <<reqVars, hookVars, health, dashVars, calls>>

SpecCompare == InitCompareSpec /\ [][NextCompare]_vars

(***************************************************************************)
(* Specification of the task-string builder alone: any pattern of filled,  *)
(* missing, empty and whitespace-only step fields.                         *)
(***************************************************************************)
StepTexts ==
    << "Open the login page",
       "Enter username as 'testuser'",
       "Enter password as 'password123'",
       "Click on the login button",
       "2 items are added to the cart",
       "Wait for the dashboard to load",
       "Open the profile menu",
       "Click Logout",
       "Confirm",
       "Close the tab" >>

\* the ways a step field can be left unused
UnusedKinds == << None, Some(""), Some("  \t") >>

TaskSteps(filled, k) ==
    [i \in 1..NumStepFields |->
        IF i \in filled THEN Some(StepTexts[i])
        ELSE UnusedKinds[((i + k) % Len(UnusedKinds)) + 1]]

TaskRequests ==
    { MakeRequest("https://example.com/login", "User Login Test",
                  TaskSteps(filled, k), outcome) :
        filled \in SUBSET (1..NumStepFields),
        k \in 0..(Len(UnusedKinds) - 1),
        outcome \in {"", "User sees the dashboard"} }

InitTask ==
    /\ pc = "task"
    /\ request \in TaskRequests
    /\ keyPresent = FALSE
    /\ websocket = FALSE
    /\ execution_log = <<>>
    /\ screenshots = <<>>
    /\ step_count = 0
    /\ status = None
    /\ actual_outcome = None
    /\ comparison_result = None
    /\ browser_bound = FALSE
    /\ task_string = None
    /\ exc = None
    /\ raised_at = None
    /\ agent_output = None
    /\ close_calls = 0
    /\ run_calls = 0
    /\ sent = <<>>
    /\ result = None
    /\ http = 0

\* line 342
BuildTask ==
    /\ pc = "task"
    /\ task_string' = Some(BuildTaskString(request))
    /\ pc' = "task_built"
    /\ UNCHANGED <<request, keyPresent, websocket, execution_log, screenshots,
                   step_count, status, actual_outcome, comparison_result,
                   browser_bound, exc, raised_at, agent_output, close_calls,
                   run_calls, sent, result, http>>

InitTaskSpec ==
    InitTask /\ IdleCompare /\ IdleHook /\ health = 0 /\ IdleDash /\ IdleCalls

NextTask == BuildTask /\ UNCHANGED others

SpecTask == InitTaskSpec /\ [][NextTask]_vars


(***************************************************************************)
(* Specification of the dashboard: one press of the Execute button on a    *)
(* filled form, and the answer of the service.                             *)
(***************************************************************************)
FormUrls == {"", " ", "https://example.com/login"}
FormTitles == {"", "User Login Test"}
FormOutcomes == {"", "User must be able to log into the dashboard successfully"}

\* the ten step inputs, by the texts typed into some of them
FormSteps ==
    { [i \in 1..NumStepFields |-> ""],
      [i \in 1..NumStepFields |-> IF i = 2 THEN "   " ELSE IF i = 7 THEN "\t" ELSE ""],
      [i \in 1..NumStepFields |-> IF i = 1 THEN "Enter username as 'testuser'" ELSE ""],
      [i \in 1..NumStepFields |->
          IF i = 3 THEN " Click on the login button "
          ELSE IF i = 4 THEN "  "
          ELSE IF i = NumStepFields THEN "Verify dashboard" ELSE ""],
      [i \in 1..NumStepFields |-> "Press " \o Str(i)] }

\* st.session_state on entry: fresh, or left by an earlier run
Sessions ==
    { [screenshots |-> <<>>, current_step |-> 0,
       test_status |-> "Ready", execution_log |-> <<>>],
      [screenshots |-> <<"aW1nMQ==">>, current_step |-> 1,
       test_status |-> "SUCCESS",
       execution_log |-> <<"Starting test: Smoke", StepLogEntry(1)>>] }

\* a TestResult as response.json() gives it
ApiResult(req, st, shots, log) ==
    [test_id |-> TestId, title |-> req.Title, url |-> req.URL, status |-> st,
     expected_outcome |-> req.Expected_Outcome,
     actual_outcome |-> IF st = "error" THEN MissingKeyMessage ELSE CompletedOutcome,
     comparison_result |-> IF st = "error" THEN ErrorComparison
                           ELSE SimpleComparison(req.Expected_Outcome, CompletedOutcome),
     execution_log |-> log, screenshots |-> shots]

\* what call_test_api can return for the posted request
ApiResponses ==
    {None} \cup
    { Some(ApiResult(posted[1], st, shots, <<"Starting test: " \o posted[1].Title>>)) :
        st \in {SuccessStatus, "error"},
        shots \in {<<>>, <<"aW1nMg==">>, <<"aW1nMQ==", "aW1nMg==">>} }

InitDashboard ==
    /\ form \in [url : FormUrls, title : FormTitles, outcome : FormOutcomes,
                 steps : FormSteps]
    /\ session \in Sessions
    /\ posted = None
    /\ ui_error = None
    /\ banner = None
    /\ dpc = "idle"

InitDashboardSpec ==
    InitDashboard /\ IdleRequest /\ IdleCompare /\ IdleHook /\ health = 0 /\ IdleCalls

NextDashboard ==
    \/ Click /\ UNCHANGED <<reqVars, cmpVars, hookVars, health, calls>>
    \/ /\ posted # None
       /\ \E res \in ApiResponses :
              Respond(res) /\ UNCHANGED <<reqVars, cmpVars, hookVars, health, calls>>

SpecDashboard == InitDashboardSpec /\ [][NextDashboard]_vars


(***************************************************************************)
(* Specification of two requests handled concurrently by the one           *)
(* test_executor (line 514): each call of execute_test_with_streaming has  *)
(* its own locals; the event loop switches between the calls at an await.  *)
(***************************************************************************)
CallIds == {"A", "B"}

CallRequest(c) ==
    MakeRequest("https://example.com/" \o c, "Test " \o c, LoginSteps,
                "User must be able to log into the dashboard successfully")

\* the locals of a call that has not been entered; fired and captured
\* record what its own agent did (calls of its hook, screenshots it gave)
IdleCall ==
    [pc |-> "idle", keyPresent |-> FALSE, execution_log |-> <<>>,
     screenshots |-> <<>>, step_count |-> 0, status |-> None,
     actual_outcome |-> None, comparison_result |-> None, result |-> None,
     fired |-> 0, captured |-> <<>>]

\* what the page of call c's own browser gives at its n-th step
CallCaptures(c, n) ==
    { [kind |-> "str", data |-> "shot-" \o c \o "-" \o Str(n)],
      [kind |-> "no_page", data |-> ""] }

\* lines 371-376 on the locals r
CallHandled(r, msg) ==
    [r EXCEPT !.execution_log = Append(@, ErrorEntry(msg)),
              !.status = Some("error"),
              !.actual_outcome = Some("Test failed with error: " \o msg),
              !.comparison_result = Some(ErrorComparison)]

\* lines 384-401 on the locals r of call c
CallReturned(c, r) ==
    [r EXCEPT !.pc = "returned",
              !.result = Some(ApiResult(CallRequest(c), r.status[1],
                                        r.screenshots, r.execution_log))]

\* lines 317-352 and 405: run_test calls execute_test_with_streaming, which
\* runs without an await up to agent.run (or to its return, with no key)
CallEnter(c, key) ==
    /\ calls[c].pc = "idle"
    /\ LET r0 == [calls[c] EXCEPT !.keyPresent = key,
                                  !.execution_log = <<"Test started at " \o StartIso>>,
                                  !.screenshots = <<>>]
       IN  calls' = [calls EXCEPT ![c] =
               IF ~key
               THEN CallReturned(c, CallHandled(r0, MissingKeyMessage))
               ELSE [r0 EXCEPT !.execution_log =
                                   @ \o <<"Gemini LLM initialized successfully",
                                          "Browser initialized successfully">>,
                               !.step_count = 0,
                               !.pc = "running"]]

\* Variant: step_count is an attribute of the one test_executor, so the
\* hook of either call counts for every running call.
CallHookBeginShared(c) ==
    /\ calls[c].pc = "running"
    /\ calls[c].fired < MaxSteps
    /\ calls' = [d \in CallIds |->
                   IF d = c
                   THEN [calls[d] EXCEPT !.step_count = @ + 1, !.fired = @ + 1,
                                         !.pc = "capturing"]
                   ELSE IF calls[d].pc \in {"running", "capturing"}
                   THEN [calls[d] EXCEPT !.step_count = @ + 1]
                   ELSE calls[d]]

\* lines 407-411: step_hook of call c up to the await of the capture
CallHookBegin(c) ==
    /\ calls[c].pc = "running"
    /\ calls[c].fired < MaxSteps
    /\ calls' = [calls EXCEPT ![c] =
                   [@ EXCEPT !.step_count = @ + 1, !.fired = @ + 1,
                             !.pc = "capturing"]]

\* lines 411-438: the capture is back; run_test passes no websocket
CallHookEnd(c, cap) ==
    /\ calls[c].pc = "capturing"
    /\ LET screenshot == TakeScreenshot(cap)
           truthy == screenshot # None /\ screenshot[1] # ""
       IN  calls' = [calls EXCEPT ![c] =
               [@ EXCEPT !.screenshots = IF truthy THEN Append(@, screenshot[1]) ELSE @,
                         !.captured = IF truthy THEN Append(@, screenshot[1]) ELSE @,
                         !.execution_log = Append(@, StepLogEntry(calls[c].step_count)),
                         !.pc = "running"]]

\* lines 441, 354-368: agent.run returns, up to the await of browser.close()
CallRunReturns(c) ==
    /\ calls[c].pc = "running"
    /\ calls' = [calls EXCEPT ![c] =
           [@ EXCEPT !.execution_log = Append(@, "Agent execution completed successfully"),
                     !.actual_outcome = Some(CompletedOutcome),
                     !.comparison_result =
                         Some(SimpleComparison(CallRequest(c).Expected_Outcome,
                                               CompletedOutcome)),
                     !.status = Some(SuccessStatus),
                     !.pc = "closing"]]

\* lines 441, 371-380: agent.run raises, up to the await of browser.close()
CallRunRaises(c) ==
    /\ calls[c].pc = "running"
    /\ calls' = [calls EXCEPT ![c] =
           [CallHandled(@, "Agent run failed: browser disconnected")
                EXCEPT !.pc = "except_closing"]]

\* lines 368-369, and 371-380 when the close raises
CallClose(c, ok) ==
    /\ calls[c].pc = "closing"
    /\ calls' = [calls EXCEPT ![c] =
           IF ok
           THEN CallReturned(c, [@ EXCEPT !.execution_log =
                                     Append(@, "Browser closed successfully")])
           ELSE [CallHandled(@, "Browser.close: target closed")
                     EXCEPT !.pc = "except_closing"]]

\* lines 378-401: the guarded close of the except block, then the result
CallHandlerClose(c, ok) ==
    /\ calls[c].pc = "except_closing"
    /\ calls' = [calls EXCEPT ![c] = CallReturned(c, @)]

InitConcurrent == calls = [c \in CallIds |-> IdleCall]

InitConcurrentSpec ==
    InitConcurrent /\ IdleRequest /\ IdleCompare /\ IdleHook /\ health = 0 /\ IdleDash

CallStep(c) ==
    \/ \E key \in BOOLEAN : CallEnter(c, key)
    \/ CallHookBegin(c)
    \/ \E cap \in CallCaptures(c, calls[c].fired) : CallHookEnd(c, cap)
    \/ CallRunReturns(c)
    \/ CallRunRaises(c)
    \/ \E ok \in BOOLEAN : CallClose(c, ok)
    \/ \E ok \in BOOLEAN : CallHandlerClose(c, ok)

NextConcurrent ==
    /\ \E c \in CallIds : CallStep(c)
    /\ UNCHANGED <<reqVars, cmpVars, hookVars, health, dashVars>>

SpecConcurrent == InitConcurrentSpec /\ [][NextConcurrent]_vars


(***************************************************************************)
(* Properties of the classifier (checked under SpecCompare).               *)
(***************************************************************************)
\* the verdict a comparison string announces
ClassifierStatus(v) ==
    IF StartsWith(v, "FAILED:") THEN "failed"
    ELSE IF StartsWith(v, "SUCCESS:") THEN "passed"
    ELSE IF StartsWith(v, "PARTIAL:") THEN "partial"
    ELSE "unknown"

HasFailureIndicator(text) ==
    \E k \in {"failed", "error", "exception", "timeout", "not found"} :
        Contains(Lower(text), k)

HasSuccessIndicator(text) ==
    \E k \in {"success", "completed", "achieved", "passed", "login", "dashboard"} :
        Contains(Lower(text), k)

\* keyword-match count >= max(1, 20% of the expected-keyword count)
KeywordRuleMet(exp, act) ==
    /\ KeywordMatches(exp, act) >= 1
    /\ 5 * KeywordMatches(exp, act) >= Len(ExpectedKeywords(exp))

\* C4: whenever the case-folded actual text contains a failure indicator the
\* classifier's verdict is "failed", whatever else the text contains.
C4_FailurePriority ==
    (verdict # None /\ HasFailureIndicator(actual))
        => ClassifierStatus(verdict[1]) = "failed"

C4_Witness ==
    /\ verdict # None
    /\ actual = "successfully handled error"
    /\ HasSuccessIndicator(actual)
    /\ ClassifierStatus(verdict[1]) = "failed"

\* C5: with no failure indicator the verdict is "passed" exactly when a
\* success indicator occurs in the actual text or the number of expected
\* words longer than two characters found in it is at least
\* max(1, 20% of the number of such words).
C5_PassRuleWithKeywords ==
    (verdict # None /\ ~HasFailureIndicator(actual))
        => (ClassifierStatus(verdict[1]) = "passed"
                <=> (HasSuccessIndicator(actual) \/ KeywordRuleMet(expected, actual)))

\* C6: with an empty expected text and no failure indicator, the verdict is
\* "passed" only if a success indicator occurs and "partial" otherwise.
C6_EmptyExpected ==
    (verdict # None /\ expected = "" /\ ~HasFailureIndicator(actual))
        => /\ ClassifierStatus(verdict[1]) \in {"passed", "partial"}
           /\ ClassifierStatus(verdict[1]) = "passed" => HasSuccessIndicator(actual)
           /\ ~HasSuccessIndicator(actual) => ClassifierStatus(verdict[1]) = "partial"

C6_Witness ==
    /\ verdict # None
    /\ expected = ""
    /\ actual = "done"
    /\ ClassifierStatus(verdict[1]) = "partial"


(***************************************************************************)
(* Properties of the task-string builder (checked under SpecTask).         *)
(***************************************************************************)
\* the elements of a set of numbers in increasing order
RECURSIVE Ascending(_)
Ascending(S) ==
    IF S = {} THEN <<>>
    ELSE LET m == CHOOSE x \in S : \A y \in S : x <= y
         IN  <<m>> \o Ascending(S \ {m})

\* text.split("\n"): the lines of a text
Lines(s) ==
    LET breaks == <<0>> \o Ascending({i \in 1..Len(s) : CharAt(s, i) = "\n"})
                       \o <<Len(s) + 1>>
    IN  [j \in 1..(Len(breaks) - 1) |-> SubSeq(s, breaks[j] + 1, breaks[j + 1] - 1)]

IsDigit(c) == \E d \in 1..Len(DigitChars) : CharAt(DigitChars, d) = c

\* a line of the form "<digits>. <text>"
IsNumberedLine(l) ==
    \E n \in 1..Len(l) :
        /\ n + 2 <= Len(l)
        /\ \A j \in 1..n : IsDigit(CharAt(l, j))
        /\ SubSeq(l, n + 1, n + 2) = ". "

\* the step fields that hold a non-blank text, in declared order
NonEmptyFields(req) ==
    Ascending({i \in 1..NumStepFields :
                  /\ req.Steps[i] # None
                  /\ \E j \in 1..Len(req.Steps[i][1]) :
                         CharAt(req.Steps[i][1], j) \notin {" ", "\t", "\n", "\r"}})

\* the decimal numeral of the numbers 1..10
Numeral(n) == <<"1", "2", "3", "4", "5", "6", "7", "8", "9", "10">>[n]

\* C8: the task string of a request with k non-empty steps holds exactly k
\* numbered lines, "i. <step>" for i = 1..k in the declared order of the
\* non-empty steps, and contains the URL and the expected-outcome text.
C8_TaskString ==
    task_string # None =>
        LET fields   == NonEmptyFields(request)
            numbered == SelectSeq(Lines(task_string[1]), IsNumberedLine)
        IN  /\ Len(numbered) = Len(fields)
            /\ \A i \in 1..Len(fields) :
                   numbered[i] = Numeral(i) \o ". " \o request.Steps[fields[i]][1]
            /\ Contains(task_string[1], request.URL)
            /\ Contains(task_string[1], request.Expected_Outcome)

\* a request whose non-empty steps are step2, step5 and step9, with missing,
\* empty and whitespace-only fields between them
C8_Witness ==
    /\ task_string # None
    /\ NonEmptyFields(request) = <<2, 5, 9>>
    /\ \E i, j \in 1..NumStepFields :
           request.Steps[i] = Some("") /\ request.Steps[j] = Some("  \t")
    /\ request.Expected_Outcome # ""
    /\ Len(SelectSeq(Lines(task_string[1]), IsNumberedLine)) = 3

\* all ten steps filled: the last line is numbered "10."
C8_WitnessTen ==
    /\ task_string # None
    /\ Len(NonEmptyFields(request)) = NumStepFields
    /\ \E l \in 1..Len(Lines(task_string[1])) :
           Lines(task_string[1])[l] = "10. Close the tab"


(***************************************************************************)
(* Properties of one request (checked under Spec).                         *)
(***************************************************************************)
Returned == pc = "returned"

\* C1: browser close is attempted exactly once per request, on every path.
C1_CloseExactlyOnce == Returned => close_calls = 1

\* C2: when the agent run completed without exception, the returned result
\* has the status, actual_outcome and comparison_result of the run, also
\* when browser.close() raised.
C2_CloseFailureNotMasking ==
    (Returned /\ agent_output # None /\ result # None) =>
        /\ result[1].status = SuccessStatus
        /\ result[1].actual_outcome = ActualOutcomeOf(agent_output[1])
        /\ result[1].comparison_result =
               SimpleComparison(request.Expected_Outcome,
                                ActualOutcomeOf(agent_output[1]))

\* C3: every returned TestResult has a status among passed, failed, partial
\* and error.
C3_StatusEnumeration ==
    result # None => result[1].status \in {"passed", "failed", "partial", "error"}

\* C7: after a run that completed without exception, actual_outcome is the
\* text the agent produced and comparison_result is its classification
\* against the request's Expected_Outcome.
C7_ActualOutcomeFromAgent ==
    (Returned /\ result # None /\ agent_output # None /\ exc = None) =>
        /\ result[1].actual_outcome = agent_output[1]
        /\ result[1].comparison_result =
               SimpleComparison(request.Expected_Outcome, agent_output[1])

\* C9: a run that raises before any step callback fired returns a TestResult
\* with no screenshots, a non-empty execution_log holding an "ERROR: ..."
\* entry, and a status among failed and error.
C9_ErrorBeforeFirstStep ==
    (Returned /\ exc # None /\ step_count = 0) =>
        /\ result # None
        /\ result[1].screenshots = <<>>
        /\ Len(result[1].execution_log) > 0
        /\ \E i \in 1..Len(result[1].execution_log) :
               /\ StartsWith(result[1].execution_log[i], "ERROR: ")
               /\ Len(result[1].execution_log[i]) > Len("ERROR: ")
        /\ result[1].status \in {"failed", "error"}

\* agent.run raising at once, with the browser already created
C9_Witness ==
    /\ Returned
    /\ raised_at = Some("running")
    /\ step_count = 0
    /\ run_calls = 1
    /\ result # None
    /\ result[1].status = "error"

\* the phases of the per-request state machine
Phase ==
    CASE pc = "start" -> "STARTED"
      [] pc = "validate" -> "VALIDATING"
      [] pc \in {"llm", "browser", "agent", "monitor", "running"} -> "RUNNING"
      [] pc \in {"classify", "close"} -> "CLASSIFYING"
      [] pc \in {"except", "except_close"} -> "ERRORED"
      [] pc \in {"build", "returned"} -> IF exc = None THEN "COMPLETED" ELSE "ERRORED"

PhaseStep(p, q) ==
    \/ q = p
    \/ p = "STARTED" /\ q = "VALIDATING"
    \/ p = "VALIDATING" /\ q = "RUNNING"
    \/ p = "RUNNING" /\ q = "CLASSIFYING"
    \/ p = "CLASSIFYING" /\ q = "COMPLETED"
    \/ p \notin {"COMPLETED", "ERRORED"} /\ q = "ERRORED"

\* C10: a request moves STARTED -> VALIDATING -> RUNNING -> CLASSIFYING ->
\* COMPLETED or from any of these to ERRORED, and never leaves COMPLETED or
\* ERRORED; agent.run is called at most once; a TestResult is returned once,
\* with a 200 answer, and no exception reaches the caller.
C10_Lifecycle ==
    [][ /\ PhaseStep(Phase, Phase')
        /\ run_calls' <= 1
        /\ (pc = "running" => run_calls = 1)
        /\ (result # None => result' = result)
        /\ (pc' = "returned" => result' # None /\ http' = 200)
        /\ (pc' # "returned" => result' = None /\ http' = 0)
        /\ (pc = "returned" => pc' = "returned")
      ]_vars

\* a run that failed after its last step callback and was not run again
C10_Witness ==
    /\ Returned
    /\ raised_at = Some("running")
    /\ step_count = MaxSteps
    /\ run_calls = 1
    /\ close_calls = 1
    /\ result # None
    /\ http = 200


\* C11: without GOOGLE_API_KEY a request creates no LLM, browser or agent
\* and fires no step callback; it returns a TestResult with status "error"
\* whose actual_outcome and execution_log carry the missing-key message;
\* /health is answered with 200 whether or not the key is set.
C11_MissingKeyFailsFast ==
    /\ (~keyPresent /\ pc # "start") =>
           /\ pc \in {"validate", "except", "build", "returned"}
           /\ ~browser_bound
           /\ task_string = None
           /\ run_calls = 0 /\ hooks_fired = 0 /\ step_count = 0
           /\ close_calls = 0
           /\ \A i \in 1..Len(execution_log) :
                  /\ ~Contains(execution_log[i], "LLM initialized")
                  /\ ~Contains(execution_log[i], "Browser initialized")
    /\ (~keyPresent /\ Returned) =>
           /\ result # None
           /\ result[1].status = "error"
           /\ Contains(result[1].actual_outcome, "GOOGLE_API_KEY not found")
           /\ \E i \in 1..Len(result[1].execution_log) :
                  Contains(result[1].execution_log[i], "GOOGLE_API_KEY not found")
           /\ result[1].screenshots = <<>>
    /\ health \in {0, 200}
    /\ health = 0 => ENABLED HealthCheck

C11_Witness ==
    /\ ~keyPresent
    /\ Returned
    /\ health = 200
    /\ result[1].status = "error"
    /\ Len(result[1].execution_log) = 2

\* A step of the model in which step_hook was called once
HookCalled == hooks_fired' = hooks_fired + 1

\* What the last screenshot probe gave to step_hook (line 411)
LastShot == TakeScreenshot(last_cap[1])
LastShotTruthy == last_cap # None /\ LastShot # None /\ LastShot[1] # ""

\* The messages step_hook hands to send_text for step n (lines 416-436)
StepMessages(n, shot, truthy) ==
    (IF truthy THEN <<ScreenshotMessage(shot[1], n)>> ELSE <<>>)
        \o <<StatusMessage(n)>>

\* C12: failures of websocket sends never affect the run: whatever the two
\* send_text calls do, the callback completes, agent.run goes on, the data of
\* the result (step number, screenshots, log) is what it is with no channel
\* at all, each message is handed to the channel once and never retried.
C12_SendFailureHarmless ==
    [][HookCalled =>
         LET n == step_count + 1
             shot == TakeScreenshot(last_cap'[1])
             truthy == shot # None /\ shot[1] # ""
         IN  /\ pc' = "running" /\ exc' = exc /\ raised_at' = raised_at
             /\ step_count' = n
             /\ screenshots' = IF truthy THEN Append(screenshots, shot[1])
                               ELSE screenshots
             /\ execution_log' = Append(execution_log, StepLogEntry(n))
             /\ status' = status /\ actual_outcome' = actual_outcome
             /\ pushed' = IF websocket
                          THEN pushed \o StepMessages(n, shot, truthy)
                          ELSE pushed
             /\ \E k \in 0..2 : Len(sent') = Len(sent) + k
             /\ Len(sent') - Len(sent) <= Len(pushed') - Len(pushed)
             /\ \A i \in Len(sent) + 1..Len(sent') :
                    \E j \in Len(pushed) + 1..Len(pushed') : sent'[i] = pushed'[j]
    ]_vars

\* A run over a channel that lost messages still returns "success" with
\* every step logged.
C12_Witness ==
    /\ Returned
    /\ websocket
    /\ hooks_fired = MaxSteps
    /\ Len(sent) < Len(pushed)
    /\ result[1].status = SuccessStatus
    /\ Len(result[1].execution_log) >= MaxSteps
    /\ Len(result[1].screenshots) >= 1

IsScreenshotMessage(m) == m.type = "screenshot"
IsStatusMessage(m) == m.type = "status"

\* C13 as stated: over a live channel every completed step n pushes the pair
\* screenshot message n, status message n, also when the capture of step n
\* yields nothing.
C13_PairPerStep ==
    websocket =>
        /\ Len(pushed) = 2 * hooks_fired
        /\ \A n \in 1..hooks_fired :
               /\ IsScreenshotMessage(pushed[2 * n - 1])
               /\ pushed[2 * n - 1].step = n
               /\ pushed[2 * n] = StatusMessage(n)

\* C13 amended: over a live channel every completed step n pushes exactly one
\* status message n; a screenshot message n goes right before it exactly when
\* the capture of step n gave a non-empty screenshot, and carries it; with no
\* channel nothing is pushed.
C13_StatusPerStepShotIfCaptured ==
    LET shots == SelectSeq(pushed, IsScreenshotMessage)
        stats == SelectSeq(pushed, IsStatusMessage)
    IN  /\ ~websocket => pushed = <<>>
        /\ websocket =>
               /\ Len(pushed) = Len(shots) + Len(stats)
               /\ stats = [n \in 1..hooks_fired |-> StatusMessage(n)]
               /\ Len(shots) = Len(screenshots)
               /\ \A k \in 1..Len(shots) :
                      /\ shots[k].screenshot = Some(screenshots[k])
                      /\ shots[k].screenshot # Some("")
                      /\ shots[k].step \in 1..hooks_fired
                      /\ shots[k] = ScreenshotMessage(screenshots[k], shots[k].step)
                      /\ k > 1 => shots[k - 1].step < shots[k].step
               /\ \A i \in 1..Len(pushed) :
                      IsScreenshotMessage(pushed[i]) =>
                          /\ i < Len(pushed)
                          /\ pushed[i + 1] = StatusMessage(pushed[i].step)
               /\ (hooks_fired > 0 /\ ~LastShotTruthy) =>
                      /\ pushed[Len(pushed)] = StatusMessage(hooks_fired)
                      /\ Len(pushed) > 1 => IsStatusMessage(pushed[Len(pushed) - 1])

\* Two steps over a live channel, the first capture failing: three messages.
C13_Witness ==
    /\ websocket
    /\ hooks_fired = 2
    /\ Len(screenshots) = 1
    /\ Len(pushed) = 3
    /\ IsStatusMessage(pushed[1])
    /\ IsScreenshotMessage(pushed[2])
    /\ Returned

\* The probes of Captures on which _take_screenshot_from_agent fails
FailedKinds == {"raise", "no_session", "no_page", "other"}

\* C14: a failed screenshot capture (the capture raising, no browser session,
\* no current page, data of an unexpected type) only means no screenshot for
\* that step: screenshots is unchanged, the hook does not raise, the step is
\* counted and logged, the run continues, and the final status is decided by
\* the run alone.
C14_CaptureFailureIsNoScreenshot ==
    /\ [][(HookCalled /\ last_cap'[1].kind \in FailedKinds) =>
            /\ TakeScreenshot(last_cap'[1]) = None
            /\ screenshots' = screenshots
            /\ pc' = "running" /\ exc' = exc /\ raised_at' = raised_at
            /\ step_count' = step_count + 1
            /\ execution_log' = Append(execution_log, StepLogEntry(step_count + 1))
            /\ status' = status
         ]_vars
    /\ [](pc = "running" => exc = None)
    /\ []((Returned /\ exc = None) => result[1].status = SuccessStatus)

\* A run whose first capture gave a screenshot and whose second raised
\* returns "success" with one screenshot and two step entries.
C14_Witness ==
    /\ Returned
    /\ hooks_fired = 2
    /\ last_cap # None /\ last_cap[1].kind = "raise"
    /\ result[1].status = SuccessStatus
    /\ result[1].screenshots = <<"aW1nMg==">>
    /\ \E i \in 1..Len(result[1].execution_log) :
           result[1].execution_log[i] = StepLogEntry(2)

StepSuffix == " completed with screenshot"

\* a log entry of the form "Step <...> completed with screenshot"
IsStepEntry(e) ==
    /\ StartsWith(e, "Step ")
    /\ Len(e) > Len(StepSuffix)
    /\ SubSeq(e, Len(e) - Len(StepSuffix) + 1, Len(e)) = StepSuffix

StepEntries(log) == SelectSeq(log, IsStepEntry)

\* the step entries of n callbacks, written out
ExpectedStepEntries(n) ==
    [i \in 1..n |-> "Step " \o Numeral(i) \o StepSuffix]

IsPrefix(s, t) == Len(s) <= Len(t) /\ SubSeq(t, 1, Len(s)) = s

\* C17: at every point of a run, and in the returned TestResult also when the
\* run ends in an error after n callbacks, execution_log holds exactly one
\* "Step i completed with screenshot" entry per callback fired, i = 1..n in
\* order; len(screenshots) <= n; screenshots grow only inside a callback, at
\* the end and by at most one, so they stand in capture order.
C17_StepAccounting ==
    /\ [](/\ StepEntries(execution_log) = ExpectedStepEntries(hooks_fired)
          /\ Len(screenshots) <= hooks_fired
          /\ step_count = hooks_fired
          /\ result # None =>
                 /\ StepEntries(result[1].execution_log)
                        = ExpectedStepEntries(hooks_fired)
                 /\ result[1].screenshots = screenshots
                 /\ Len(result[1].screenshots) <= hooks_fired)
    /\ [][/\ IsPrefix(screenshots, screenshots')
          /\ Len(screenshots') <= Len(screenshots) + 1
          /\ screenshots' # screenshots =>
                 /\ HookCalled
                 /\ screenshots' = Append(screenshots, TakeScreenshot(last_cap'[1])[1])
          /\ IsPrefix(execution_log, execution_log')
         ]_vars

\* A run that raised after two callbacks, of which one captured nothing:
\* the error result has two step entries and one screenshot.
C17_Witness ==
    /\ Returned
    /\ raised_at = Some("running")
    /\ result[1].status = "error"
    /\ hooks_fired = 2
    /\ Len(StepEntries(result[1].execution_log)) = 2
    /\ Len(result[1].screenshots) = 1

UnknownBanner == "TEST STATUS UNKNOWN"

\* C18: every status execute_test_with_streaming puts in a TestResult is
\* "success" or "error"; both fall into the else branch of the dashboard's
\* status indicator, so the banner of every result the service returns is
\* "TEST STATUS UNKNOWN", never TEST PASSED, TEST FAILED or TEST PARTIAL.
C18_BannerAlwaysUnknown ==
    /\ result # None =>
           /\ result[1].status \in {"success", "error"}
           /\ Banner(result[1].status) = UnknownBanner
    /\ banner # None =>
           /\ result # None
           /\ banner[1] = UnknownBanner
           /\ banner[1] \notin {"TEST PASSED", "TEST FAILED", "TEST PARTIAL"}
           /\ session.test_status \in {"SUCCESS", "ERROR"}

\* The dashboard has rendered the result of a run that completed without
\* any exception: the banner says unknown.
C18_Witness ==
    /\ banner = Some(UnknownBanner)
    /\ result[1].status = "success"
    /\ exc = None
    /\ hooks_fired >= 1
    /\ session.test_status = "SUCCESS"

\* a text with a character that is not white space
NonBlank(s) == \E j \in 1..Len(s) : CharAt(s, j) \notin {" ", "\t", "\n", "\r"}

\* URL, Title and Expected Outcome non-empty, one step field non-blank
FormComplete(f) ==
    /\ f.url # "" /\ f.title # "" /\ f.outcome # ""
    /\ \E i \in 1..NumStepFields : NonBlank(f.steps[i])

ButtonPressed == dpc = "idle" /\ dpc' # "idle"

\* C16: the dashboard posts to /run-test only when URL, Title and Expected
\* Outcome are non-empty and one of the ten step fields is non-blank;
\* otherwise it shows an error, sends nothing and leaves the session state
\* as it was. The posted Steps hold exactly the non-blank steps under their
\* own keys step1..step10.
C16_PostOnlyCompleteForm ==
    /\ [][ButtonPressed =>
            IF FormComplete(form)
            THEN /\ posted' # None
                 /\ posted'[1].URL = form.url
                 /\ posted'[1].Title = form.title
                 /\ posted'[1].Expected_Outcome = form.outcome
                 /\ \A i \in 1..NumStepFields :
                        posted'[1].Steps[i] = IF NonBlank(form.steps[i])
                                              THEN Some(form.steps[i]) ELSE None
                 /\ ui_error' = None
            ELSE /\ posted' = None
                 /\ ui_error' # None
                 /\ session' = session
                 /\ banner' = None
         ]_vars
    /\ [](posted # None => FormComplete(form))
    /\ [](~FormComplete(form) => (posted = None /\ dpc \in {"idle", "error"}))

\* Everything filled in but the steps, which hold white space only: the
\* button shows the steps error and the session of the earlier run stays.
C16_Witness ==
    /\ dpc = "error"
    /\ form.url # "" /\ form.title # "" /\ form.outcome # ""
    /\ \E i \in 1..NumStepFields : form.steps[i] # ""
    /\ ui_error = Some("Please add at least one test step")
    /\ posted = None
    /\ session.test_status = "SUCCESS"

\* A form with steps 3 and 10 filled and step 4 blank was posted with the
\* keys step3 and step10 only.
C16_WitnessPosted ==
    /\ posted # None
    /\ posted[1].Steps[3] # None /\ posted[1].Steps[NumStepFields] # None
    /\ posted[1].Steps[4] = None
    /\ form.steps[4] # ""

\* the entries execute_test_with_streaming writes once per call
OncePerCall ==
    {"Test started at " \o StartIso, "Gemini LLM initialized successfully",
     "Browser initialized successfully", "Agent execution completed successfully",
     "Browser closed successfully"}

Occurrences(log, e) == Cardinality({i \in 1..Len(log) : log[i] = e})

\* screenshot s was taken from the browser of call c
TakenBy(s, c) == StartsWith(s, "shot-" \o c \o "-")

\* the lists of call c hold what c's own agent produced and nothing else
OwnDataOnly(c, log, shots) ==
    /\ \A k \in 1..Len(shots) : TakenBy(shots[k], c)
    /\ shots = calls[c].captured
    /\ Len(shots) <= calls[c].fired
    /\ StepEntries(log) = ExpectedStepEntries(IF calls[c].pc = "capturing"
                                              THEN calls[c].fired - 1
                                              ELSE calls[c].fired)
    /\ \A e \in OncePerCall : Occurrences(log, e) <= 1

\* C15: for any interleaving of the step callbacks of two concurrently
\* handled requests, each request's lists and its TestResult hold only its
\* own screenshots and log entries, and its own step numbering from 1.
C15_RequestsIndependent ==
    \A c \in CallIds :
        /\ OwnDataOnly(c, calls[c].execution_log, calls[c].screenshots)
        /\ calls[c].pc # "idle" => Occurrences(calls[c].execution_log,
                                               "Test started at " \o StartIso) = 1
        /\ calls[c].result # None =>
               /\ calls[c].pc = "returned"
               /\ calls[c].result[1].title = CallRequest(c).Title
               /\ calls[c].result[1].url = CallRequest(c).URL
               /\ calls[c].result[1].execution_log = calls[c].execution_log
               /\ calls[c].result[1].screenshots = calls[c].screenshots
               /\ OwnDataOnly(c, calls[c].result[1].execution_log,
                              calls[c].result[1].screenshots)

\* Both requests returned after two steps each, every step with a
\* screenshot; their callbacks were free to interleave.
C15_Witness ==
    /\ \A c \in CallIds :
           /\ calls[c].pc = "returned"
           /\ calls[c].fired = 2
           /\ Len(calls[c].result[1].screenshots) = 2
    /\ calls["A"].result[1].screenshots # calls["B"].result[1].screenshots

\* The callback of B ran while the callback of A was awaiting its capture.
C15_WitnessInterleaved ==
    /\ calls["A"].pc = "capturing"
    /\ calls["B"].pc = "capturing"
    /\ calls["A"].fired = 2
    /\ calls["B"].fired = 1

=============================================================================
